---- MODULE Spec2Model ----
(***************************************************************************)
(* OverlayKeyboardDispatcher (src/cdk/overlay/keyboard): one capture-phase *)
(* keydown listener on document.body, an ordered list of attached overlay  *)
(* refs, and the selection of the overlay that receives each keydown.      *)
(***************************************************************************)
EXTENDS Naturals, Sequences, FiniteSets

\* Largest number of entries of _attachedOverlays the model explores.
MaxOverlays == 3

\* Largest number of add/remove calls a sink makes while it handles one event.
MaxReentrant == 2

\* Largest number of keydown events whose arrival and delivery are recorded.
MaxEvents == 2

\* DOM nodes besides document.body and the overlays' root elements.
ExtraNodes == 1

\* The OverlayRef objects (compared by identity).
Overlays == {"A", "B", "C"}

\* document.body, the root of the modelled DOM tree.
Body == 0

\* overlayRef.overlayElement: the root element of each overlay.
overlayElement(overlayRef) ==
    CASE overlayRef = "A" -> 1
      [] overlayRef = "B" -> 2
      [] overlayRef = "C" -> 3

\* Every node of the document: body, the overlay elements, other elements.
Nodes == 0 .. (Cardinality(Overlays) + ExtraNodes)

\* The value of an unset field, of find() without a match, of arr[-1].
Undefined == "undefined"

VARIABLES
    _attachedOverlays,  \* OverlayRef[]: attached overlays, in attachment order
    _isAttached,        \* "undefined" (never set), "true" or "false"
    bodyListeners,      \* addEventListener calls on body not yet matched by removeEventListener
    parentNode,         \* the DOM tree: parentNode[n] for every node but body
    last,               \* the last call: its arguments, the state before it, the calls it made
    inFlight,           \* the listener's position: whether a sink call has not returned yet
    observed            \* what an observer of the calls and of the sinks has recorded

vars == <<_attachedOverlays, _isAttached, bodyListeners, parentNode, last,
          inFlight, observed>>

\* The observer's record.  mode says what is recorded: nothing ("off"),
\* the overlays whose remove() returned and that were not added since
\* ("deregistered"), or the keydown events that arrived while the listener
\* was bound and the sink calls made, in order ("events").
Observer(mode) ==
    [mode |-> mode, deregistered |-> {}, arrived |-> <<>>, delivered |-> <<>>]

\* The record after add(overlayRef) returned.
ObserveAdd(o, overlayRef) ==
    IF o.mode = "deregistered"
    THEN [o EXCEPT !.deregistered = @ \ {overlayRef}]
    ELSE o

\* The record after remove(overlayRef) returned.
ObserveRemove(o, overlayRef) ==
    IF o.mode = "deregistered"
    THEN [o EXCEPT !.deregistered = @ \cup {overlayRef}]
    ELSE o

\* The record after a keydown with this target, arriving while the listener
\* was bound or not, made the given sink calls: the event is noted as
\* arrived if the listener was bound, and the event of every sink call as
\* delivered.
ObserveKeydown(o, target, bound, sinkCalls) ==
    IF o.mode = "events"
    THEN [o EXCEPT !.arrived = IF bound THEN Append(@, target) ELSE @,
                   !.delivered = @ \o [i \in DOMAIN sinkCalls |-> sinkCalls[i][2]]]
    ELSE o

\* Whether one more keydown may be recorded.
MayObserveKeydown(o) == o.mode = "events" => Len(o.arrived) < MaxEvents

\* No sink call is running.
Idle == [active |-> FALSE, sinkCalls |-> <<>>, calls |-> 0]

\* A dispatcher call made from inside a running sink is counted.
Reenter(f) == IF f.active THEN [f EXCEPT !.calls = @ + 1] ELSE f

\* Whether one more dispatcher call may be made now.
MayCall(f) == f.active => f.calls < MaxReentrant

\* JavaScript truthiness of _isAttached (undefined and false are falsy).
Truthy(v) == v = "true"

\* Node.contains(other): other is node itself or a descendant of node.
RECURSIVE Contains(_, _)
Contains(node, other) ==
    \/ other = node
    \/ other # Body /\ Contains(node, parentNode[other])

\* The predicate given to find() in _selectOverlayFromEvent.
ContainsEvent(overlay, target) ==
    \/ overlayElement(overlay) = target
    \/ Contains(overlayElement(overlay), target)

\* A find() that scans from the end (findLast): the newest match wins.
RECURSIVE FindLast(_, _, _)
FindLast(arr, i, target) ==
    IF i > Len(arr) THEN Undefined
    ELSE IF ContainsEvent(arr[Len(arr) + 1 - i], target) THEN arr[Len(arr) + 1 - i]
    ELSE FindLast(arr, i + 1, target)

\* Array.prototype.find: the first element from index i on that satisfies
\* the predicate, undefined when there is none.
RECURSIVE Find(_, _, _)
Find(arr, i, target) ==
    IF i > Len(arr) THEN Undefined
    ELSE IF ContainsEvent(arr[i], target) THEN arr[i]
    ELSE Find(arr, i + 1, target)

\* arr[0] in place of arr[arr.length - 1]: the oldest overlay as fallback.
Head1(arr) == IF Len(arr) = 0 THEN Undefined ELSE arr[1]

\* arr[arr.length - 1]: the last element, undefined for an empty array.
Tail1(arr) == IF Len(arr) = 0 THEN Undefined ELSE arr[Len(arr)]

_selectOverlayFromEvent(overlays, target) ==
    LET targetedOverlay == Find(overlays, 1, target)
    IN  IF targetedOverlay # Undefined THEN targetedOverlay ELSE Tail1(overlays)

\* A listener that forwards the event to every overlay containing the target.
_keydownListenerAll(overlays, target) ==
    [sinkCalls |-> SelectSeq([i \in 1 .. Len(overlays) |-> <<overlays[i], target>>],
                             LAMBDA c : ContainsEvent(c[1], target)),
     threw |-> FALSE]

\* A listener without the emptiness guard.
_keydownListenerUnguarded(overlays, target) ==
    LET overlay == _selectOverlayFromEvent(overlays, target)
    IN  IF overlay = Undefined
        THEN [sinkCalls |-> <<>>, threw |-> TRUE]
        ELSE [sinkCalls |-> <<<<overlay, target>>>>, threw |-> FALSE]

\* A listener that coalesces repeats: an event with the target of the event
\* delivered just before it is swallowed.
_keydownListenerCoalesce(overlays, target) ==
    IF last.op = "keydown" /\ last.events = <<target>> /\ last.sinkCalls # <<>>
    THEN [sinkCalls |-> <<>>, threw |-> FALSE]
    ELSE IF Len(overlays) # 0
    THEN [sinkCalls |-> <<<<_selectOverlayFromEvent(overlays, target), target>>>>,
          threw |-> FALSE]
    ELSE [sinkCalls |-> <<>>, threw |-> FALSE]

\* The listener bound to body: what it calls for one event.
\* sinkCalls are the calls of overlay._keydownEvents.next(event), in order.
_keydownListener(overlays, target) ==
    IF Len(overlays) # 0
    THEN LET overlay == _selectOverlayFromEvent(overlays, target)
         IN  IF overlay = Undefined
             THEN [sinkCalls |-> <<>>, threw |-> TRUE]
             ELSE [sinkCalls |-> <<<<overlay, target>>>>, threw |-> FALSE]
    ELSE [sinkCalls |-> <<>>, threw |-> FALSE]

\* Array.prototype.indexOf: the first index of x in arr (1-based), 0 if absent.
RECURSIVE IndexOf(_, _, _)
IndexOf(arr, x, i) ==
    IF i > Len(arr) THEN 0
    ELSE IF arr[i] = x THEN i
    ELSE IndexOf(arr, x, i + 1)

\* Removal by moving the last entry into the hole and popping.
SpliceSwapPop(arr, index) ==
    IF index = Len(arr)
    THEN SubSeq(arr, 1, Len(arr) - 1)
    ELSE SubSeq(arr, 1, index - 1) \o <<arr[Len(arr)]>>
             \o SubSeq(arr, index + 1, Len(arr) - 1)

\* Array.prototype.splice(index, 1): arr without its entry at index.
Splice(arr, index) ==
    SubSeq(arr, 1, index - 1) \o SubSeq(arr, index + 1, Len(arr))

\* _detach() that clears the flag but leaves the listener on body.
_detachFlagOnly(isAttached, listeners) ==
    IF Truthy(isAttached)
    THEN [isAttached |-> "false", listeners |-> listeners, domCalls |-> <<>>]
    ELSE [isAttached |-> isAttached, listeners |-> listeners, domCalls |-> <<>>]

\* _detach() that removes the listener but leaves the flag set.
_detachKeepFlag(isAttached, listeners) ==
    IF Truthy(isAttached)
    THEN [isAttached |-> isAttached,
          listeners  |-> IF listeners > 0 THEN listeners - 1 ELSE 0,
          domCalls   |-> <<"removeEventListener">>]
    ELSE [isAttached |-> isAttached, listeners |-> listeners, domCalls |-> <<>>]

\* _detach() without its guard.
_detachUnguarded(isAttached, listeners) ==
    [isAttached |-> "false",
     listeners  |-> IF listeners > 0 THEN listeners - 1 ELSE 0,
     domCalls   |-> <<"removeEventListener">>]

\* _detach(): the new flag, the new listener count and the DOM calls made.
_detach(isAttached, listeners) ==
    IF Truthy(isAttached)
    THEN [isAttached |-> "false",
          listeners  |-> IF listeners > 0 THEN listeners - 1 ELSE 0,
          domCalls   |-> <<"removeEventListener">>]
    ELSE [isAttached |-> isAttached,
          listeners  |-> listeners,
          domCalls   |-> <<>>]

\* The record of a call: its name and arguments, the state it started from,
\* the DOM calls and sink calls it made, whether it threw.
Call(op, overlayRef, events, domCalls, sinkCalls, threw) ==
    [op |-> op, overlayRef |-> overlayRef, events |-> events,
     attachedOverlays |-> _attachedOverlays, isAttached |-> _isAttached,
     listeners |-> bodyListeners,
     domCalls |-> domCalls, sinkCalls |-> sinkCalls, threw |-> threw]

\* A DOM tree over Nodes: every node but body has a parent created before it.
Trees == {f \in [Nodes \ {Body} -> Nodes] : \A n \in Nodes \ {Body} : f[n] < n}

Init ==
    /\ _attachedOverlays = <<>>
    /\ _isAttached = Undefined
    /\ bodyListeners = 0
    /\ parentNode \in Trees
    /\ last = [op |-> "constructor", overlayRef |-> "none", events |-> <<>>,
               attachedOverlays |-> <<>>, isAttached |-> Undefined,
               listeners |-> 0,
               domCalls |-> <<>>, sinkCalls |-> <<>>, threw |-> FALSE]
    /\ inFlight = Idle
    /\ observed = Observer("off")

\* The attach step without its guard: every add() binds a listener.
attachAlways(isAttached, listeners) ==
    [isAttached |-> "true",
     listeners  |-> listeners + 1,
     domCalls   |-> <<"addEventListener">>]

\* The attach step of add(): the flag, the listener count, the DOM calls.
attach(isAttached, listeners) ==
    IF ~Truthy(isAttached)
    THEN [isAttached |-> "true",
          listeners  |-> listeners + 1,
          domCalls   |-> <<"addEventListener">>]
    ELSE [isAttached |-> isAttached,
          listeners  |-> listeners,
          domCalls   |-> <<>>]

\* add() that puts the overlay at the head of the list (unshift).
addUnshift(overlayRef) ==
    /\ Len(_attachedOverlays) < MaxOverlays
    /\ MayCall(inFlight)
    /\ inFlight' = Reenter(inFlight)
    /\ observed' = ObserveAdd(observed, overlayRef)
    /\ LET a == attach(_isAttached, bodyListeners)
       IN  /\ _isAttached' = a.isAttached
           /\ bodyListeners' = a.listeners
           /\ _attachedOverlays' = <<overlayRef>> \o _attachedOverlays
           /\ last' = Call("add", overlayRef, <<>>, a.domCalls, <<>>, FALSE)
    /\ UNCHANGED parentNode

add(overlayRef) ==
    /\ Len(_attachedOverlays) < MaxOverlays
    /\ MayCall(inFlight)
    /\ inFlight' = Reenter(inFlight)
    /\ observed' = ObserveAdd(observed, overlayRef)
    /\ LET a == attach(_isAttached, bodyListeners)
       IN  /\ _isAttached' = a.isAttached
           /\ bodyListeners' = a.listeners
           /\ _attachedOverlays' = Append(_attachedOverlays, overlayRef)
           /\ last' = Call("add", overlayRef, <<>>, a.domCalls, <<>>, FALSE)
    /\ UNCHANGED parentNode

\* The list after remove(): the first occurrence spliced out, if there is one.
removeFrom(overlays, overlayRef) ==
    LET index == IndexOf(overlays, overlayRef, 1)
    IN  IF index > 0 THEN Splice(overlays, index) ELSE overlays

\* remove() that detaches whatever is left in the list.
removeAlwaysDetach(overlayRef) ==
    LET overlays == removeFrom(_attachedOverlays, overlayRef)
        d == _detach(_isAttached, bodyListeners)
    IN  /\ _attachedOverlays' = overlays
        /\ _isAttached' = d.isAttached
        /\ bodyListeners' = d.listeners
        /\ last' = Call("remove", overlayRef, <<>>, d.domCalls, <<>>, FALSE)
        /\ MayCall(inFlight)
        /\ inFlight' = Reenter(inFlight)
        /\ observed' = ObserveRemove(observed, overlayRef)
        /\ UNCHANGED parentNode

\* remove() that never detaches the listener.
removeNeverDetach(overlayRef) ==
    /\ _attachedOverlays' = removeFrom(_attachedOverlays, overlayRef)
    /\ last' = Call("remove", overlayRef, <<>>, <<>>, <<>>, FALSE)
    /\ MayCall(inFlight)
    /\ inFlight' = Reenter(inFlight)
    /\ observed' = ObserveRemove(observed, overlayRef)
    /\ UNCHANGED <<_isAttached, bodyListeners, parentNode>>

remove(overlayRef) ==
    LET overlays == removeFrom(_attachedOverlays, overlayRef)
        d == IF Len(overlays) = 0
             THEN _detach(_isAttached, bodyListeners)
             ELSE [isAttached |-> _isAttached, listeners |-> bodyListeners,
                   domCalls |-> <<>>]
    IN  /\ _attachedOverlays' = overlays
        /\ _isAttached' = d.isAttached
        /\ bodyListeners' = d.listeners
        /\ last' = Call("remove", overlayRef, <<>>, d.domCalls, <<>>, FALSE)
        /\ MayCall(inFlight)
        /\ inFlight' = Reenter(inFlight)
        /\ observed' = ObserveRemove(observed, overlayRef)
        /\ UNCHANGED parentNode

ngOnDestroy ==
    LET d == _detach(_isAttached, bodyListeners)
    IN  /\ _isAttached' = d.isAttached
        /\ bodyListeners' = d.listeners
        /\ last' = Call("ngOnDestroy", "none", <<>>, d.domCalls, <<>>, FALSE)
        /\ ~inFlight.active
        /\ UNCHANGED <<_attachedOverlays, parentNode, inFlight, observed>>

\* A keydown whose listener takes the fallback overlay with pop().
KeydownPop(target) ==
    LET r == IF bodyListeners > 0
             THEN _keydownListener(_attachedOverlays, target)
             ELSE [sinkCalls |-> <<>>, threw |-> FALSE]
    IN  /\ last' = Call("keydown", "none", <<target>>, <<>>, r.sinkCalls, r.threw)
        /\ _attachedOverlays' =
              IF bodyListeners > 0 /\ Len(_attachedOverlays) > 0
                 /\ Find(_attachedOverlays, 1, target) = Undefined
              THEN SubSeq(_attachedOverlays, 1, Len(_attachedOverlays) - 1)
              ELSE _attachedOverlays
        /\ ~inFlight.active
        /\ MayObserveKeydown(observed)
        /\ observed' = ObserveKeydown(observed, target, bodyListeners > 0,
                                      r.sinkCalls)
        /\ UNCHANGED <<_isAttached, bodyListeners, parentNode, inFlight>>

\* A keydown event with the given target reaches body in the capture phase:
\* the browser calls the listener if one is bound.
Keydown(target) ==
    LET r == IF bodyListeners > 0
             THEN _keydownListener(_attachedOverlays, target)
             ELSE [sinkCalls |-> <<>>, threw |-> FALSE]
    IN  /\ last' = Call("keydown", "none", <<target>>, <<>>, r.sinkCalls, r.threw)
        /\ ~inFlight.active
        /\ MayObserveKeydown(observed)
        /\ observed' = ObserveKeydown(observed, target, bodyListeners > 0,
                                      r.sinkCalls)
        /\ UNCHANGED <<_attachedOverlays, _isAttached, bodyListeners,
                       parentNode, inFlight>>

\* A keydown whose sink may call add and remove before it returns: the
\* listener resolves the overlay and calls its sink, which is then running.
KeydownBegin(target) ==
    LET r == IF bodyListeners > 0
             THEN _keydownListener(_attachedOverlays, target)
             ELSE [sinkCalls |-> <<>>, threw |-> FALSE]
    IN  /\ ~inFlight.active
        /\ last' = Call("keydown", "none", <<target>>, <<>>, r.sinkCalls, r.threw)
        /\ inFlight' = IF r.sinkCalls # <<>>
                       THEN [active |-> TRUE, sinkCalls |-> r.sinkCalls, calls |-> 0]
                       ELSE Idle
        /\ MayObserveKeydown(observed)
        /\ observed' = ObserveKeydown(observed, target, bodyListeners > 0,
                                      r.sinkCalls)
        /\ UNCHANGED <<_attachedOverlays, _isAttached, bodyListeners, parentNode>>

\* A listener that, once the sink has returned, looks at the list again and
\* forwards the event to the overlay that is now its tail.
SinkReturnRedeliver ==
    /\ inFlight.active
    /\ last' = Call("sinkReturn", "none", <<inFlight.sinkCalls[1][2]>>, <<>>,
                    IF Len(_attachedOverlays) > 0
                    THEN Append(inFlight.sinkCalls,
                                <<Tail1(_attachedOverlays), inFlight.sinkCalls[1][2]>>)
                    ELSE inFlight.sinkCalls,
                    Len(_attachedOverlays) = 0)
    /\ inFlight' = Idle
    /\ UNCHANGED <<_attachedOverlays, _isAttached, bodyListeners, parentNode,
                   observed>>

\* The sink returns and with it the listener: nothing follows the call of
\* next() in _keydownListener.
SinkReturn ==
    /\ inFlight.active
    /\ last' = Call("sinkReturn", "none", <<inFlight.sinkCalls[1][2]>>, <<>>,
                    inFlight.sinkCalls, FALSE)
    /\ inFlight' = Idle
    /\ UNCHANGED <<_attachedOverlays, _isAttached, bodyListeners, parentNode,
                   observed>>

Next ==
    \/ \E overlayRef \in Overlays : add(overlayRef)
    \/ \E overlayRef \in Overlays : remove(overlayRef)
    \/ ngOnDestroy
    \/ \E target \in Nodes : Keydown(target)

Spec == Init /\ [][Next]_vars

\* The dispatcher used only through add and remove (never destroyed).
NextAddRemove ==
    \/ \E overlayRef \in Overlays : add(overlayRef)
    \/ \E overlayRef \in Overlays : remove(overlayRef)
    \/ \E target \in Nodes : Keydown(target)

SpecAddRemove == Init /\ [][NextAddRemove]_vars

\* The dispatcher with sinks that call add and remove while they run.
NextReentrant ==
    \/ \E overlayRef \in Overlays : add(overlayRef)
    \/ \E overlayRef \in Overlays : remove(overlayRef)
    \/ \E target \in Nodes : KeydownBegin(target)
    \/ SinkReturn

\* The DOM trees in which every element is a child of body or of the
\* element created just before it (flat, nested, and every mix of the two).
NestedTrees == {f \in Trees : \A n \in Nodes \ {Body} : f[n] \in {Body, n - 1}}

InitNested == Init /\ parentNode \in NestedTrees

\* The DOM tree in which every element is the child of the one created
\* before it: each overlay element contains the later ones.
ChainTree == [n \in Nodes \ {Body} |-> n - 1]

\* The freshly constructed dispatcher with an observer in the given mode.
InitObserved(mode) ==
    /\ _attachedOverlays = <<>>
    /\ _isAttached = Undefined
    /\ bodyListeners = 0
    /\ parentNode = ChainTree
    /\ last = [op |-> "constructor", overlayRef |-> "none", events |-> <<>>,
               attachedOverlays |-> <<>>, isAttached |-> Undefined,
               listeners |-> 0,
               domCalls |-> <<>>, sinkCalls |-> <<>>, threw |-> FALSE]
    /\ inFlight = Idle
    /\ observed = Observer(mode)

\* The dispatcher watched for sink calls on deregistered overlays.
SpecDeregistered == InitObserved("deregistered") /\ [][Next]_vars

\* The dispatcher with the arrival and the delivery of its first events recorded.
SpecEvents == InitObserved("events") /\ [][Next]_vars

SpecReentrant == InitNested /\ [][NextReentrant]_vars

(***************************************************************************)
(* Properties.  last holds the most recent call with the state it started  *)
(* from, so a property of a call is an invariant over last and the state.  *)
(***************************************************************************)

\* The set of entries of a sequence.
Range(s) == {s[i] : i \in DOMAIN s}

\* The most recent call was a keydown that the bound listener handled.
Dispatched == last.op = "keydown" /\ last.listeners > 0

\* The target of the most recent keydown.
LastTarget == last.events[1]

\* C1: used through add and remove only, the keydown listener is bound
\* (_isAttached is true, one listener on body) exactly when
\* _attachedOverlays is non-empty.
C1_ListenerIffNonEmpty ==
    /\ Truthy(_isAttached) <=> Len(_attachedOverlays) > 0
    /\ bodyListeners > 0 <=> Len(_attachedOverlays) > 0

\* C1 witness: the last overlay was removed and the listener was unbound.
C1_Witness ==
    /\ last.op = "remove"
    /\ Len(last.attachedOverlays) = 1
    /\ last.isAttached = "true"
    /\ _attachedOverlays = <<>>
    /\ _isAttached = "false"
    /\ bodyListeners = 0

\* C2: at most one keydown listener is bound on body at any time;
\* addEventListener is called only while none is bound and
\* removeEventListener only while one is bound.
C2_AtMostOneListener ==
    /\ bodyListeners \in {0, 1}
    /\ \A i \in DOMAIN last.domCalls :
          /\ last.domCalls[i] = "addEventListener" => last.listeners = 0
          /\ last.domCalls[i] = "removeEventListener" => last.listeners = 1

\* C2 witness: add() after a teardown that left overlays in the list binds
\* the listener again, and it is the only one.
C2_Witness ==
    /\ last.op = "add"
    /\ Len(last.attachedOverlays) > 0
    /\ last.isAttached = "false"
    /\ last.domCalls = <<"addEventListener">>
    /\ bodyListeners = 1

\* C3: no overlay occurs twice in _attachedOverlays.
C3_NoDuplicates ==
    \A i, j \in DOMAIN _attachedOverlays :
        i # j => _attachedOverlays[i] # _attachedOverlays[j]

\* C4: a keydown handled by the listener whose target lies in (or is) the
\* root element of some attached overlay goes to the overlay of smallest
\* index among those containing the target.
C4_OldestContainingWins ==
    (Dispatched /\ \E k \in DOMAIN last.attachedOverlays :
                       ContainsEvent(last.attachedOverlays[k], LastTarget))
    => \E i \in DOMAIN last.attachedOverlays :
          /\ ContainsEvent(last.attachedOverlays[i], LastTarget)
          /\ \A j \in 1 .. (i - 1) :
                ~ContainsEvent(last.attachedOverlays[j], LastTarget)
          /\ last.sinkCalls = <<<<last.attachedOverlays[i], LastTarget>>>>

\* C4 witness: two overlays contain the target, neither is the head of the
\* list, and the older of the two, which is not the tail, received the event.
C4_Witness ==
    /\ Dispatched
    /\ \E i, j \in DOMAIN last.attachedOverlays :
          /\ 1 < i /\ i < j
          /\ last.attachedOverlays[i] # last.attachedOverlays[j]
          /\ ~ContainsEvent(last.attachedOverlays[1], LastTarget)
          /\ ContainsEvent(last.attachedOverlays[i], LastTarget)
          /\ ContainsEvent(last.attachedOverlays[j], LastTarget)
          /\ last.sinkCalls = <<<<last.attachedOverlays[i], LastTarget>>>>

\* C5: a keydown handled by the listener whose target is outside every
\* attached overlay's root element goes to the tail of the list and to no
\* other overlay.
C5_FallbackToTail ==
    (/\ Dispatched
     /\ Len(last.attachedOverlays) > 0
     /\ \A k \in DOMAIN last.attachedOverlays :
           ~ContainsEvent(last.attachedOverlays[k], LastTarget))
    => last.sinkCalls =
          <<<<last.attachedOverlays[Len(last.attachedOverlays)], LastTarget>>>>

\* C5 witness: three distinct overlays attached, the target outside all of
\* them, the event delivered to the third.
C5_Witness ==
    /\ Dispatched
    /\ Len(last.attachedOverlays) = 3
    /\ Cardinality(Range(last.attachedOverlays)) = 3
    /\ \A k \in DOMAIN last.attachedOverlays :
          ~ContainsEvent(last.attachedOverlays[k], LastTarget)
    /\ last.sinkCalls = <<<<last.attachedOverlays[3], LastTarget>>>>

\* C6: every keydown handled by the bound listener makes exactly one sink
\* call, on an attached overlay, with that event, and does not throw.
C6_SingleDelivery ==
    Dispatched
    => /\ Len(last.sinkCalls) = 1
       /\ last.sinkCalls[1][1] \in Range(last.attachedOverlays)
       /\ last.sinkCalls[1][2] = LastTarget
       /\ ~last.threw

\* C6 witness: the same overlay is in the list twice, it contains the
\* target, it is also the tail, and the event was delivered once.
C6_Witness ==
    /\ Dispatched
    /\ \E i, j \in DOMAIN last.attachedOverlays :
          /\ i < j /\ j = Len(last.attachedOverlays)
          /\ last.attachedOverlays[i] = last.attachedOverlays[j]
          /\ ContainsEvent(last.attachedOverlays[i], LastTarget)
    /\ Len(last.sinkCalls) = 1

\* C7: remove(H) with H in the list deletes the first occurrence of H and
\* nothing else; the other entries keep their order.
C7_RemovePreservesOrder ==
    (last.op = "remove" /\ last.overlayRef \in Range(last.attachedOverlays))
    => \E i \in DOMAIN last.attachedOverlays :
          /\ last.attachedOverlays[i] = last.overlayRef
          /\ \A j \in 1 .. (i - 1) : last.attachedOverlays[j] # last.overlayRef
          /\ Len(_attachedOverlays) = Len(last.attachedOverlays) - 1
          /\ \A j \in DOMAIN _attachedOverlays :
                _attachedOverlays[j] =
                    IF j < i THEN last.attachedOverlays[j]
                    ELSE last.attachedOverlays[j + 1]

\* C7 witness: the middle one of three distinct overlays was removed.
C7_Witness ==
    /\ last.op = "remove"
    /\ Len(last.attachedOverlays) = 3
    /\ Cardinality(Range(last.attachedOverlays)) = 3
    /\ last.attachedOverlays[2] = last.overlayRef
    /\ _attachedOverlays = <<last.attachedOverlays[1], last.attachedOverlays[3]>>

\* C8: remove(H) with H not in the list changes nothing, makes no DOM call
\* and does not throw.
C8_RemoveAbsentNoOp ==
    (last.op = "remove" /\ last.overlayRef \notin Range(last.attachedOverlays))
    => /\ _attachedOverlays = last.attachedOverlays
       /\ _isAttached = last.isAttached
       /\ bodyListeners = last.listeners
       /\ last.domCalls = <<>>
       /\ ~last.threw

\* C8 witness: an absent overlay was removed while other overlays were
\* attached and the listener was bound.
C8_Witness ==
    /\ last.op = "remove"
    /\ last.overlayRef \notin Range(last.attachedOverlays)
    /\ Len(last.attachedOverlays) > 0
    /\ last.isAttached = "true"
    /\ bodyListeners = 1

C10_TeardownIdempotent ==
    /\ (last.op = "ngOnDestroy" /\ last.listeners = 0)
       => /\ _attachedOverlays = last.attachedOverlays
          /\ _isAttached = last.isAttached
          /\ bodyListeners = last.listeners
          /\ last.domCalls = <<>>
          /\ ~last.threw
    /\ last.op = "ngOnDestroy"
       => _detach(_isAttached, bodyListeners) =
              [isAttached |-> _isAttached, listeners |-> bodyListeners,
               domCalls |-> <<>>]

\* C10 witness: ngOnDestroy on a dispatcher that was never attached.
C10_Witness ==
    /\ last.op = "ngOnDestroy"
    /\ last.isAttached = Undefined
    /\ _isAttached = Undefined
    /\ bodyListeners = 0

\* The list s with one entry deleted at position i.
Without(s, i) == [j \in 1 .. (Len(s) - 1) |-> IF j < i THEN s[j] ELSE s[j + 1]]

\* C11: add(H) appends H at the tail and leaves the earlier entries as they
\* were, and binds the listener when the list was empty; no other call
\* reorders the list (it stays as it was or loses one entry), so the list
\* is always in attachment order.
C11_AddAppends ==
    /\ last.op = "add"
       => /\ Len(_attachedOverlays) = Len(last.attachedOverlays) + 1
          /\ _attachedOverlays[Len(_attachedOverlays)] = last.overlayRef
          /\ \A j \in DOMAIN last.attachedOverlays :
                _attachedOverlays[j] = last.attachedOverlays[j]
          /\ last.attachedOverlays = <<>>
                => Truthy(_isAttached) /\ bodyListeners = 1
    /\ last.op # "add"
       => \/ _attachedOverlays = last.attachedOverlays
          \/ \E i \in DOMAIN last.attachedOverlays :
                _attachedOverlays = Without(last.attachedOverlays, i)

\* C11 witness: a third overlay was added behind two others.
C11_Witness ==
    /\ last.op = "add"
    /\ Len(last.attachedOverlays) = 2
    /\ Cardinality(Range(_attachedOverlays)) = 3
    /\ _attachedOverlays[3] = last.overlayRef

\* C12: removing the last overlay unbinds the listener; a keydown that
\* arrives while the list is empty calls no sink and does not throw, and
\* the listener itself drops an event when the list is empty.
C12_EmptyRegistryDropsEvents ==
    /\ (last.op = "remove" /\ _attachedOverlays = <<>>)
       => ~Truthy(_isAttached) /\ bodyListeners = 0
    /\ (last.op = "keydown" /\ last.attachedOverlays = <<>>)
       => last.sinkCalls = <<>> /\ ~last.threw
    /\ \A target \in Nodes :
          _keydownListener(<<>>, target) = [sinkCalls |-> <<>>, threw |-> FALSE]

\* C12 witness: a keydown arrived after the only overlay had been removed.
C12_Witness ==
    /\ last.op = "keydown"
    /\ last.attachedOverlays = <<>>
    /\ last.isAttached = "false"
    /\ last.listeners = 0
    /\ last.sinkCalls = <<>>

\* C14: a keydown (whose sink makes no dispatcher call) leaves the list,
\* the flag and the listener binding as they were and makes no DOM call;
\* state changes only in add, remove and ngOnDestroy.
C14_DispatchReadOnly ==
    /\ last.op = "keydown"
       => /\ _attachedOverlays = last.attachedOverlays
          /\ _isAttached = last.isAttached
          /\ bodyListeners = last.listeners
          /\ last.domCalls = <<>>
    /\ (\/ _attachedOverlays # last.attachedOverlays
        \/ _isAttached # last.isAttached
        \/ bodyListeners # last.listeners)
       => last.op \in {"add", "remove", "ngOnDestroy"}

\* C14 witness: a keydown was delivered to the tail as fallback and the
\* list of three overlays is still complete.
C14_Witness ==
    /\ Dispatched
    /\ Len(_attachedOverlays) = 3
    /\ \A k \in DOMAIN last.attachedOverlays :
          ~ContainsEvent(last.attachedOverlays[k], LastTarget)
    /\ Len(last.sinkCalls) = 1
    /\ _attachedOverlays = last.attachedOverlays

\* C17: under any interleaving of add, remove and ngOnDestroy a bound
\* listener implies a non-empty list, so the listener never runs on an
\* empty list and never resolves to undefined.
C17_BoundImpliesNonEmpty ==
    /\ Truthy(_isAttached) => Len(_attachedOverlays) > 0
    /\ bodyListeners > 0 => Len(_attachedOverlays) > 0
    /\ Dispatched
       => /\ Len(last.attachedOverlays) > 0
          /\ _selectOverlayFromEvent(last.attachedOverlays, LastTarget) # Undefined
          /\ ~last.threw

\* C17 witness: after a teardown that left two overlays in the list, add()
\* bound the listener again, on a list of three.
C17_Witness ==
    /\ last.op = "add"
    /\ last.isAttached = "false"
    /\ last.listeners = 0
    /\ Len(last.attachedOverlays) = 2
    /\ Truthy(_isAttached)
    /\ bodyListeners = 1
    /\ Len(_attachedOverlays) = 3

\* The overlay a keydown is meant for: the oldest attached overlay whose
\* element is or contains the target, the newest attached one if none does.
Resolved(overlays, target) ==
    IF \E k \in DOMAIN overlays : ContainsEvent(overlays[k], target)
    THEN overlays[CHOOSE i \in DOMAIN overlays :
                      /\ ContainsEvent(overlays[i], target)
                      /\ \A j \in 1 .. (i - 1) : ~ContainsEvent(overlays[j], target)]
    ELSE overlays[Len(overlays)]

\* C13: when the sink called for a keydown itself calls add and remove, the
\* event is delivered once, to the overlay resolved from the list as it was
\* when the listener ran; nothing is delivered or thrown when the sink
\* returns; and each add or remove made inside the sink has the effect it
\* has outside a dispatch.
C13_ReentrantMutationTolerated ==
    /\ inFlight.active => Len(inFlight.sinkCalls) = 1
    /\ (inFlight.active /\ last.op = "keydown")
       => inFlight.sinkCalls =
              <<<<Resolved(last.attachedOverlays, LastTarget), LastTarget>>>>
    /\ last.op = "sinkReturn"
       => /\ Len(last.sinkCalls) = 1
          /\ last.sinkCalls[1][2] = LastTarget
          /\ ~last.threw
          /\ last.domCalls = <<>>
          /\ _attachedOverlays = last.attachedOverlays
          /\ _isAttached = last.isAttached
          /\ bodyListeners = last.listeners
    /\ (inFlight.active /\ last.op = "add")
       => /\ _attachedOverlays = last.attachedOverlays \o <<last.overlayRef>>
          /\ Truthy(_isAttached) /\ bodyListeners = 1
          /\ ~last.threw
    /\ (inFlight.active /\ last.op = "remove")
       => /\ \/ /\ last.overlayRef \notin Range(last.attachedOverlays)
                /\ _attachedOverlays = last.attachedOverlays
             \/ \E i \in DOMAIN last.attachedOverlays :
                   /\ last.attachedOverlays[i] = last.overlayRef
                   /\ \A j \in 1 .. (i - 1) :
                         last.attachedOverlays[j] # last.overlayRef
                   /\ _attachedOverlays = Without(last.attachedOverlays, i)
          /\ IF _attachedOverlays = <<>>
             THEN ~Truthy(_isAttached) /\ bodyListeners = 0
             ELSE _isAttached = last.isAttached /\ bodyListeners = last.listeners
          /\ ~last.threw

\* C13 witness: the sink removed every overlay, its own included, so the
\* listener was unbound while the event was in flight, and then returned.
C13_Witness ==
    /\ last.op = "sinkReturn"
    /\ Len(last.sinkCalls) = 1
    /\ _attachedOverlays = <<>>
    /\ ~Truthy(_isAttached)
    /\ bodyListeners = 0

\* C15: the events passed to the sinks are, in order, exactly the events
\* that arrived while the listener was bound; each is passed on in the call
\* in which it arrives, as it is, to the overlay resolved from the list at
\* that moment; no other call reaches a sink.
C15_EventsRoutedInArrivalOrder ==
    /\ observed.mode = "events" => observed.delivered = observed.arrived
    /\ Dispatched
       => last.sinkCalls =
              <<<<Resolved(last.attachedOverlays, LastTarget), LastTarget>>>>
    /\ (last.op = "keydown" /\ last.listeners = 0) => last.sinkCalls = <<>>
    /\ last.op \notin {"keydown", "sinkReturn"} => last.sinkCalls = <<>>

\* C15 witness: two different events arrived while the listener was bound
\* and both were delivered, the second just now.
C15_Witness ==
    /\ observed.mode = "events"
    /\ Len(observed.arrived) = 2
    /\ observed.arrived[1] # observed.arrived[2]
    /\ observed.delivered = observed.arrived
    /\ Dispatched
    /\ LastTarget = observed.arrived[2]

\* C16: a keydown is never delivered to an overlay whose remove() has
\* returned and that has not been added again since.
C16_NoDeliveryAfterDeregister ==
    Dispatched
    => \A i \in DOMAIN last.sinkCalls :
          last.sinkCalls[i][1] \notin observed.deregistered

====
